---- MODULE Spec2Model ----
(***************************************************************************)
(* A model of the c_hashmap library: the separate-chaining table of        *)
(* hashmap.c (lines 1-294) and the open-addressing table (linear probing   *)
(* with DELETED markers).  Both export the same functions; the model keeps *)
(* the source's names and marks the variant with a suffix.                 *)
(*                                                                         *)
(* Pointers are modelled by integers.  A key is identified by the int that *)
(* addr_hash makes of it, (int)(unsigned long)key, so a negative key is a  *)
(* pointer whose bit 31 is set; 0 is NULL, for keys and for values.        *)
(***************************************************************************)
EXTENDS Integers, Sequences, FiniteSets, TLC

VARIABLES
    variant,   \* which table the library is: "chained" (hashmap.c) or "open"
    hm,        \* struct hashmap: size, nentries, backing, hashcode, equals
    last,      \* the last call made on hm and what it returned
    nremoves,  \* successful hashmap_remove calls since hashmap_new / hashmap_clear
    test,      \* the caller: any calls ("none"), or test_add_immediate_remove
    test_i     \* the loop variable i of test_add_immediate_remove

vars == <<variant, hm, last, nremoves, test, test_i>>

(* ---------------------------- bounds ----------------------------------- *)

\* Number of successful hashmap_remove calls the caller makes on a table
\* between two hashmap_clear calls.
MaxRemoves == 2

\* The caller adds -3, 0, 1, .., NumFill-1 in this order, as test_resize
\* adds its keys, and removes none of them but -3, in the end.
NumFill == 5

\* The number of iterations of test_add_immediate_remove that are followed
\* (num_items, 1000000 in the source).
MaxItems == 11

\* -3 is a key with a negative hash; it takes the slot of 3 at size 10.
FillKeys == {-3} \cup 0..(NumFill - 1)

\* The keys the caller adds to and removes from a table hashed by address
\* in any order: 9 and 19 collide at size 10, at the end of the array, so
\* that probing wraps around into the slots of the keys of FillKeys.
IntRemoved == {9, 19}

IntKeys == FillKeys \cup IntRemoved

\* The keys the caller uses, and removes, with a table hashed by
\* collision_hash.
CollisionKeys == {0, 1, 9}

\* The keys the caller uses, and removes, with a table of strings: the
\* addresses of three strings.
StrKeys == {101, 102, 103}

\* The strings at those addresses, as sequences of chars: "ab" twice, at
\* two addresses, and "ba", whose hash collides with that of "ab" at size 10.
Content == [k \in StrKeys |-> IF k = 103 THEN <<98, 97>> ELSE <<97, 98>>]

\* The keys under which the caller also stores NULL.
NullValued == {9, 19, 101}

(* --------------------------- constants --------------------------------- *)

HASHMAP_INIT_SIZE == 10

EMPTY == 0
DELETED == 1
ACTIVE == 2

\* Width of size_t, the type hash is converted to in compress.
SIZE_T_BITS == 64

NULL == 0

(* ------------------------ hash and equality ---------------------------- *)

ref_eq(a, b) == IF a = b THEN 1 ELSE 0

addr_hash(key) == key

collision_hash(key) == 1

\* while (*str) { hash += ((int) cur) * exp; ++str; exp = (exp << 5) - exp; }
\* The strings of Content are too short for the ints to overflow.
RECURSIVE str_hash_loop(_, _, _, _)
str_hash_loop(str, pos, hash, exp) ==
    IF pos > Len(str) THEN hash
    ELSE str_hash_loop(str, pos + 1, hash + (str[pos] * exp), (exp * 32) - exp)

hashmap_str_hash(key) ==
    IF key = 0 THEN 0 ELSE str_hash_loop(Content[key], 1, 0, 1)

\* !strcmp(str1, str2), after the tests of the pointers.
hashmap_str_eq(str1, str2) ==
    IF str1 = str2 THEN 1
    ELSE IF str1 = 0 \/ str2 = 0 THEN 0
    ELSE IF Content[str1] = Content[str2] THEN 1 ELSE 0

\* self->hashcode(key)
hashcode(self, key) ==
    IF self.hashcode = "collision_hash" THEN collision_hash(key)
    ELSE IF self.hashcode = "hashmap_str_hash" THEN hashmap_str_hash(key)
    ELSE addr_hash(key)

\* self->equals(a, b)
equals(self, a, b) ==
    IF self.equals = "hashmap_str_eq" THEN hashmap_str_eq(a, b) ELSE ref_eq(a, b)

\* 2^n modulo m, by repeated doubling (2^64 is not a TLC integer).
Square(x) == x * x

RECURSIVE PowMod2(_, _)
PowMod2(n, m) ==
    IF n = 0 THEN 1 % m
    ELSE IF n % 2 = 0 THEN Square(PowMod2(n \div 2, m)) % m
    ELSE (2 * PowMod2(n - 1, m)) % m

\* Width of int, the type of a hash.
INT_BITS == 32

\* compress with the remainder taken of the int, as when size were an int:
\* the result of % in C has the sign of hash.
compress_signed(self, hash) ==
    IF hash >= 0 \/ hash % self.size = 0 THEN hash % self.size
    ELSE (hash % self.size) - self.size

\* hash % hm->size: hash is an int and size a size_t, so hash is converted
\* to size_t (a negative hash becomes 2^SIZE_T_BITS + hash) before the
\* unsigned remainder is taken.
compress(self, hash) ==
    IF hash >= 0 THEN hash % self.size
    ELSE (PowMod2(SIZE_T_BITS, self.size) + (hash % self.size)) % self.size

update_index(self, index) == (index + 1) % self.size

\* The test of hashmap_add without LOAD_FACTOR.
NeedsResize_no_load_factor(self) == self.nentries >= self.size

\* nentries * LOAD_FACTOR >= size, with LOAD_FACTOR 1.5 (exact in double
\* arithmetic for these magnitudes): 3 * nentries >= 2 * size.
NeedsResize(self) == (self.nentries * 3) >= (self.size * 2)

(* ---------------------- open-addressing variant ------------------------ *)

\* calloc(n, sizeof(struct hm_entry_t)): every field zero.
calloc_open(n) == [i \in 0..(n - 1) |-> [key |-> 0, value |-> 0, state |-> EMPTY]]

\* add_entry with the probe given up at the end of the array: the index is
\* compared with 0, not with index_cycle_flag.
RECURSIVE add_entry_loop_no_wrap(_, _, _, _)
add_entry_loop_no_wrap(self, entry, index, index_cycle_flag) ==
    LET cur == self.backing[index] IN
    IF cur.state = ACTIVE
    THEN IF equals(self, cur.key, entry.key) = 1
         THEN [ret |-> 0, why |-> "dup", self |-> self]
         ELSE LET nxt == update_index(self, index) IN
              IF nxt = 0
              THEN [ret |-> 0, why |-> "full", self |-> self]
              ELSE add_entry_loop_no_wrap(self, entry, nxt, index_cycle_flag)
    ELSE [ret |-> 1, why |-> "ok",
          self |-> [self EXCEPT !.backing[index] = entry]]

\* The probe loop of add_entry. why is not in the source: it names the
\* return statement taken.
RECURSIVE add_entry_loop(_, _, _, _)
add_entry_loop(self, entry, index, index_cycle_flag) ==
    LET cur == self.backing[index] IN
    IF cur.state = ACTIVE
    THEN IF equals(self, cur.key, entry.key) = 1
         THEN [ret |-> 0, why |-> "dup", self |-> self]
         ELSE LET nxt == update_index(self, index) IN
              IF nxt = index_cycle_flag
              THEN [ret |-> 0, why |-> "full", self |-> self]
              ELSE add_entry_loop(self, entry, nxt, index_cycle_flag)
    ELSE [ret |-> 1, why |-> "ok",
          self |-> [self EXCEPT !.backing[index] = entry]]

add_entry_open(self, entry) ==
    LET index == compress(self, hashcode(self, entry.key)) IN
    add_entry_loop(self, entry, index, index)

\* The rehash loop of resize: old[i..old_size-1] into self, in index order;
\* the result of add_entry is dropped, as in the source. full is not in the
\* source: it tells whether some add_entry returned from the test of
\* index_cycle_flag.
RECURSIVE rehash_open(_, _, _, _, _)
rehash_open(self, old, i, old_size, full) ==
    IF i >= old_size THEN [self |-> self, full |-> full]
    ELSE IF old[i].state = ACTIVE
         THEN rehash_open(add_entry_open(self, old[i]).self, old, i + 1, old_size,
                          full \/ add_entry_open(self, old[i]).why = "full")
         ELSE rehash_open(self, old, i + 1, old_size, full)

\* resize with the old slots copied to the same indexes of the new array.
resize_open_copied(self, new_size) ==
    [self |-> [self EXCEPT !.size = new_size,
                           !.backing = [i \in 0..(new_size - 1) |->
                                           IF i < self.size THEN self.backing[i]
                                           ELSE calloc_open(new_size)[i]]],
     full |-> FALSE]

\* resize with a calloc that succeeded.
resize_open(self, new_size) ==
    rehash_open([self EXCEPT !.size = new_size, !.backing = calloc_open(new_size)],
                self.backing, 0, self.size, FALSE)

\* find_entry without the test of the state in the loop condition.
RECURSIVE find_entry_loop_any_state(_, _, _, _)
find_entry_loop_any_state(self, key, i, index_cycle_flag) ==
    LET cur == self.backing[i] IN
    IF equals(self, cur.key, key) = 0
    THEN IF cur.state = EMPTY THEN -1
         ELSE LET nxt == update_index(self, i) IN
              IF nxt = index_cycle_flag THEN -1
              ELSE find_entry_loop_any_state(self, key, nxt, index_cycle_flag)
    ELSE i

\* find_entry giving up at a DELETED slot as at an EMPTY one.
RECURSIVE find_entry_loop_stops_at_deleted(_, _, _, _)
find_entry_loop_stops_at_deleted(self, key, i, index_cycle_flag) ==
    LET cur == self.backing[i] IN
    IF cur.state # ACTIVE \/ equals(self, cur.key, key) = 0
    THEN IF cur.state # ACTIVE THEN -1
         ELSE LET nxt == update_index(self, i) IN
              IF nxt = index_cycle_flag THEN -1
              ELSE find_entry_loop_stops_at_deleted(self, key, nxt, index_cycle_flag)
    ELSE i

\* The index of the entry find_entry returns, -1 for NULL.
RECURSIVE find_entry_loop(_, _, _, _)
find_entry_loop(self, key, i, index_cycle_flag) ==
    LET cur == self.backing[i] IN
    IF cur.state # ACTIVE \/ equals(self, cur.key, key) = 0
    THEN IF cur.state = EMPTY THEN -1
         ELSE LET nxt == update_index(self, i) IN
              IF nxt = index_cycle_flag THEN -1
              ELSE find_entry_loop(self, key, nxt, index_cycle_flag)
    ELSE i

\* The number of slots the loop of find_entry tests before it returns: the
\* same loop, counting.
RECURSIVE find_entry_examined(_, _, _, _)
find_entry_examined(self, key, i, index_cycle_flag) ==
    LET cur == self.backing[i] IN
    IF cur.state # ACTIVE \/ equals(self, cur.key, key) = 0
    THEN IF cur.state = EMPTY THEN 1
         ELSE LET nxt == update_index(self, i) IN
              IF nxt = index_cycle_flag THEN 1
              ELSE 1 + find_entry_examined(self, key, nxt, index_cycle_flag)
    ELSE 1

find_entry(self, key) ==
    LET i == compress(self, hashcode(self, key)) IN
    find_entry_loop(self, key, i, i)

\* hashmap_add from "struct hm_entry_t pair" on: self is the table then,
\* resized and full tell of the resize before.
add_pair_open(self, key, value, resized, full) ==
    LET r == add_entry_open(self, [key |-> key, value |-> value, state |-> ACTIVE]) IN
    IF r.ret = 0
    THEN [ret |-> 0, why |-> r.why, resized |-> resized,
          full |-> full \/ r.why = "full", self |-> self]
    ELSE [ret |-> 1, why |-> "ok", resized |-> resized, full |-> full,
          self |-> [r.self EXCEPT !.nentries = @ + 1]]

\* hashmap_add without the test of the load factor and the resize.
hashmap_add_open_no_resize(self, key, value, calloc_ok) ==
    add_pair_open(self, key, value, FALSE, FALSE)

\* calloc_ok: whether the calloc in resize succeeds, when it is called.
hashmap_add_open(self, key, value, calloc_ok) ==
    IF NeedsResize(self)
    THEN IF ~calloc_ok
         THEN [ret |-> 0, why |-> "nomem", resized |-> FALSE, full |-> FALSE,
               self |-> self]
         ELSE LET s1 == resize_open(self, self.size * 2) IN
              add_pair_open(s1.self, key, value, TRUE, s1.full)
    ELSE add_pair_open(self, key, value, FALSE, FALSE)

\* hashmap_remove without --self->nentries.
hashmap_remove_open_keeps_count(self, key) ==
    LET cur == find_entry(self, key) IN
    IF cur = -1 \/ self.backing[cur].state = EMPTY
    THEN [ret |-> NULL, found |-> FALSE, self |-> self]
    ELSE [ret |-> self.backing[cur].value, found |-> TRUE,
          self |-> [self EXCEPT !.backing[cur].state = DELETED]]

\* hashmap_remove with the slot set back to EMPTY.
hashmap_remove_open_to_empty(self, key) ==
    LET cur == find_entry(self, key) IN
    IF cur = -1 \/ self.backing[cur].state = EMPTY
    THEN [ret |-> NULL, found |-> FALSE, self |-> self]
    ELSE [ret |-> self.backing[cur].value, found |-> TRUE,
          self |-> [self EXCEPT !.backing[cur].state = EMPTY,
                                !.nentries = @ - 1]]

hashmap_remove_open(self, key) ==
    LET cur == find_entry(self, key) IN
    IF cur = -1 \/ self.backing[cur].state = EMPTY
    THEN [ret |-> NULL, found |-> FALSE, self |-> self]
    ELSE [ret |-> self.backing[cur].value, found |-> TRUE,
          self |-> [self EXCEPT !.backing[cur].state = DELETED,
                                !.nentries = @ - 1]]

hashmap_get_open(self, key) ==
    LET cur == find_entry(self, key) IN
    IF cur # -1 /\ self.backing[cur].state = ACTIVE
    THEN self.backing[cur].value ELSE NULL

(* --------------------------- chained variant --------------------------- *)

\* calloc(n, sizeof(struct hm_entry_t *)): every bucket head NULL. A bucket
\* is the sequence of the nodes of its list, head first.
calloc_chained(n) == [i \in 0..(n - 1) |-> <<>>]

add_entry_chained(self, entry) ==
    LET index == compress(self, hashcode(self, entry.key)) IN
    [self EXCEPT !.backing[index] = <<entry>> \o @]

\* The loop over a bucket ended after its first node.
rehash_bucket_head_only(self, bucket) ==
    IF bucket = <<>> THEN self
    ELSE add_entry_chained(self, Head(bucket))

\* while (cur) { next = cur->next; add_entry(self, cur); cur = next; }
RECURSIVE rehash_bucket(_, _)
rehash_bucket(self, bucket) ==
    IF bucket = <<>> THEN self
    ELSE rehash_bucket(add_entry_chained(self, Head(bucket)), Tail(bucket))

RECURSIVE rehash_chained(_, _, _, _)
rehash_chained(self, old, i, old_size) ==
    IF i >= old_size THEN self
    ELSE rehash_chained(rehash_bucket(self, old[i]), old, i + 1, old_size)

resize_chained(self, new_size) ==
    rehash_chained([self EXCEPT !.size = new_size, !.backing = calloc_chained(new_size)],
                   self.backing, 0, self.size)

\* The position in the bucket of the first node whose key equals key, 0 if
\* the scan runs off the list (cur == NULL).
RECURSIVE scan_bucket(_, _, _, _)
scan_bucket(self, bucket, key, pos) ==
    IF pos > Len(bucket) THEN 0
    ELSE IF equals(self, bucket[pos].key, key) = 1 THEN pos
    ELSE scan_bucket(self, bucket, key, pos + 1)

\* hashmap_add from "int index" on: self is the table then.
add_pair_chained(self, key, value, malloc_ok, resized) ==
    LET index == compress(self, hashcode(self, key))
        cur == scan_bucket(self, self.backing[index], key, 1)
    IN IF cur # 0
       THEN [ret |-> 0, why |-> "dup", resized |-> resized, full |-> FALSE,
             self |-> self]
       ELSE IF ~malloc_ok
       THEN [ret |-> 0, why |-> "nomem", resized |-> resized, full |-> FALSE,
             self |-> self]
       ELSE [ret |-> 1, why |-> "ok", resized |-> resized, full |-> FALSE,
             self |-> [add_entry_chained(self, [key |-> key, value |-> value])
                         EXCEPT !.nentries = @ + 1]]

\* calloc_ok: the calloc in resize; malloc_ok: the malloc of the node.
hashmap_add_chained(self, key, value, calloc_ok, malloc_ok) ==
    IF NeedsResize(self)
    THEN IF ~calloc_ok
         THEN [ret |-> 0, why |-> "nomem", resized |-> FALSE, full |-> FALSE,
               self |-> self]
         ELSE add_pair_chained(resize_chained(self, self.size * 2), key, value,
                               malloc_ok, TRUE)
    ELSE add_pair_chained(self, key, value, malloc_ok, FALSE)

RemoveAt(seq, pos) == SubSeq(seq, 1, pos - 1) \o SubSeq(seq, pos + 1, Len(seq))

hashmap_remove_chained(self, key) ==
    LET index == compress(self, hashcode(self, key))
        cur == scan_bucket(self, self.backing[index], key, 1)
    IN IF cur = 0
       THEN [ret |-> NULL, found |-> FALSE, self |-> self]
       ELSE [ret |-> self.backing[index][cur].value, found |-> TRUE,
             self |-> [self EXCEPT !.backing[index] = RemoveAt(@, cur),
                                   !.nentries = @ - 1]]

hashmap_get_chained(self, key) ==
    LET i == compress(self, hashcode(self, key))
        cur == scan_bucket(self, self.backing[i], key, 1)
    IN IF cur # 0 THEN self.backing[i][cur].value ELSE NULL

(* ------------------------- the public functions ------------------------ *)

\* A backing pointer that points to no array: one that was freed, or the
\* indeterminate one of a struct that was never initialised.
NoArray == <<>>

HasArray(self) == DOMAIN self.backing # {}

\* What the memory malloc returns for a struct hashmap may hold: every field
\* is indeterminate.
Uninitialised ==
    [size : {0, HASHMAP_INIT_SIZE}, nentries : {0, 1}, backing : {NoArray},
     hashcode : {"NULL", "addr_hash"}, equals : {"NULL", "ref_eq"}]

\* The value of hm when hashmap_new returned NULL: there is no struct.
NoStruct ==
    [size |-> 0, nentries |-> 0, backing |-> NoArray,
     hashcode |-> "NULL", equals |-> "NULL"]

\* calloc_ok: whether the calloc succeeds. ret is NULL or 1, for self; on
\* failure no field of self is assigned.
hashmap_init(v, self, hash_func, equals_func, calloc_ok) ==
    IF ~calloc_ok THEN [ret |-> NULL, self |-> self]
    ELSE [ret |-> 1,
          self |-> [size |-> HASHMAP_INIT_SIZE,
                    nentries |-> 0,
                    backing |-> IF v = "open" THEN calloc_open(HASHMAP_INIT_SIZE)
                                ELSE calloc_chained(HASHMAP_INIT_SIZE),
                    hashcode |-> IF hash_func = "NULL" THEN "addr_hash" ELSE hash_func,
                    equals |-> IF equals_func = "NULL" THEN "ref_eq" ELSE equals_func]]

\* malloc_ok: whether the malloc of the struct succeeds, memory: what the
\* struct holds then. The result of hashmap_init is not looked at.
hashmap_new(v, hash_func, equals_func, malloc_ok, calloc_ok, memory) ==
    IF ~malloc_ok THEN [ret |-> NULL, self |-> NoStruct]
    ELSE [ret |-> 1,
          self |-> hashmap_init(v, memory, hash_func, equals_func, calloc_ok).self]

\* free(self->backing), after the free of every node in the chained table:
\* self->backing is left dangling.
del_backing(v, self) == [self EXCEPT !.backing = NoArray]

hashmap_add(v, self, key, value, calloc_ok, malloc_ok) ==
    IF v = "open" THEN hashmap_add_open(self, key, value, calloc_ok)
    ELSE hashmap_add_chained(self, key, value, calloc_ok, malloc_ok)

hashmap_remove(v, self, key) ==
    IF v = "open" THEN hashmap_remove_open(self, key)
    ELSE hashmap_remove_chained(self, key)

hashmap_get(v, self, key) ==
    IF v = "open" THEN hashmap_get_open(self, key)
    ELSE hashmap_get_chained(self, key)

hashmap_contains(v, self, key) == IF hashmap_get(v, self, key) # NULL THEN 1 ELSE 0

hashmap_size(self) == self.nentries

\* hashmap_clear with NULL passed for both functions.
hashmap_clear_default_funcs(v, self, calloc_ok) ==
    hashmap_init(v, del_backing(v, self), "NULL", "NULL", calloc_ok).self

hashmap_clear(v, self, calloc_ok) ==
    hashmap_init(v, del_backing(v, self), self.hashcode, self.equals, calloc_ok).self

(* ------------------------------ the caller ----------------------------- *)

as_key(val) == val

\* The keys the caller uses with a table, by its hash function.
KeysFor(self) ==
    IF self.hashcode = "collision_hash" THEN CollisionKeys
    ELSE IF self.hashcode = "hashmap_str_hash" THEN StrKeys
    ELSE IntKeys \cup 0..(MaxItems - 1)

\* Whether some entry of the table holds the pointer key.
Holds(v, self, key) ==
    IF v = "open"
    THEN \E n \in DOMAIN self.backing :
            self.backing[n].state = ACTIVE /\ self.backing[n].key = key
    ELSE \E n \in DOMAIN self.backing : \E m \in DOMAIN self.backing[n] :
            self.backing[n][m].key = key

\* The keys the caller may add next: a key of FillKeys once the ones below
\* it are in the table.
AddedFor(v, self) ==
    IF self.hashcode = "addr_hash"
    THEN IntRemoved
         \cup {f \in FillKeys : \A g \in FillKeys : g < f => Holds(v, self, g)}
    ELSE KeysFor(self)

\* The keys the caller removes: with a table hashed by address the keys of
\* IntRemoved and, once every key of FillKeys is in the table, the key with
\* a negative hash.
RemovedFor(v, self) ==
    IF self.hashcode = "addr_hash"
    THEN IntRemoved
         \cup {f \in FillKeys : /\ addr_hash(f) < 0
                                /\ \A g \in FillKeys : Holds(v, self, g)}
    ELSE KeysFor(self)

\* The values the caller stores under a key: the key itself, as test_resize
\* does (which makes the value of key 0 NULL), and for the keys of
\* NullValued also NULL.
ValuesFor(key) == IF key \in NullValued THEN {key, NULL} ELSE {key}

\* The outcomes of the allocations a hashmap_add makes in this state: calloc
\* is called by resize only, malloc by the chained hashmap_add only.
CallocOutcomes == IF NeedsResize(hm) THEN BOOLEAN ELSE {TRUE}

MallocOutcomes == IF variant = "chained" THEN BOOLEAN ELSE {TRUE}

\* last is the last call made on the table and what it returned; why and
\* resized tell the path it took.
NoCall == [op |-> "new", key |-> 0, value |-> 0, ret |-> 0, why |-> "ok",
           resized |-> FALSE, full |-> FALSE]

\* hashmap_new(hash_func, equals_func) has returned, to a caller that makes
\* any calls (test = "none") or to main, which runs
\* test_add_immediate_remove on a table with the default functions.
Init ==
    /\ variant \in {"open", "chained"}
    /\ test \in {"none", "test_add_immediate_remove"}
    /\ \E f \in {<<"NULL", "NULL">>, <<"collision_hash", "NULL">>,
                 <<"hashmap_str_hash", "hashmap_str_eq">>},
          malloc_ok \in BOOLEAN, calloc_ok \in BOOLEAN, memory \in Uninitialised :
          /\ test = "test_add_immediate_remove" => f = <<"NULL", "NULL">>
          /\ \E r \in {hashmap_new(variant, f[1], f[2], malloc_ok, calloc_ok, memory)} :
                /\ hm = r.self
                /\ last = [NoCall EXCEPT !.ret = r.ret,
                                         !.why = IF malloc_ok /\ calloc_ok
                                                 THEN "ok" ELSE "nomem"]
    /\ nremoves = 0
    /\ test_i = 0

\* The call hashmap_add(hm, key, value).
CallAdd(key, value, calloc_ok, malloc_ok) ==
    \E r \in {hashmap_add(variant, hm, key, value, calloc_ok, malloc_ok)} :
    /\ hm' = r.self
    /\ last' = [op |-> "add", key |-> key, value |-> value, ret |-> r.ret,
                why |-> r.why, resized |-> r.resized, full |-> r.full]

\* The call hashmap_remove(hm, key).
CallRemove(key) ==
    \E r \in {hashmap_remove(variant, hm, key)} :
    /\ hm' = r.self
    /\ last' = [op |-> "remove", key |-> key, value |-> 0, ret |-> r.ret,
                why |-> IF r.found THEN "ok" ELSE "nokey", resized |-> FALSE,
                full |-> FALSE]

\* A call on a table whose backing points to no array dereferences an
\* invalid pointer: the program is followed no further. Neither is it after
\* hashmap_new returned NULL.
Add(key, value, calloc_ok, malloc_ok) ==
    /\ test = "none"
    /\ HasArray(hm)
    /\ CallAdd(key, value, calloc_ok, malloc_ok)
    /\ UNCHANGED <<variant, nremoves, test, test_i>>

Remove(key) ==
    /\ test = "none"
    /\ HasArray(hm)
    /\ hashmap_remove(variant, hm, key).found => nremoves < MaxRemoves
    /\ CallRemove(key)
    /\ nremoves' = IF hashmap_remove(variant, hm, key).found
                   THEN nremoves + 1 ELSE nremoves
    /\ UNCHANGED <<variant, test, test_i>>

\* The call hashmap_clear(hm).
Clear(calloc_ok) ==
    /\ test = "none"
    /\ HasArray(hm)
    /\ hm' = hashmap_clear(variant, hm, calloc_ok)
    /\ last' = [NoCall EXCEPT !.op = "clear",
                              !.why = IF calloc_ok THEN "ok" ELSE "nomem"]
    /\ nremoves' = 0
    /\ UNCHANGED <<variant, test, test_i>>

\* assert(hashmap_add(hm, as_key(i), as_key(i)))
TestAdd(calloc_ok, malloc_ok) ==
    /\ test = "test_add_immediate_remove"
    /\ HasArray(hm)
    /\ last.op # "add"
    /\ test_i < MaxItems
    /\ CallAdd(as_key(test_i), as_key(test_i), calloc_ok, malloc_ok)
    /\ UNCHANGED <<variant, nremoves, test, test_i>>

\* hashmap_remove(hm, as_key(i)), made when the assert on hashmap_add held,
\* and ++i.
TestRemove ==
    /\ test = "test_add_immediate_remove"
    /\ last.op = "add"
    /\ last.ret = 1
    /\ CallRemove(as_key(test_i))
    /\ test_i' = test_i + 1
    /\ UNCHANGED <<variant, nremoves, test>>

Next ==
    \/ \E key \in AddedFor(variant, hm) : \E value \in ValuesFor(key) :
       \E calloc_ok \in CallocOutcomes, malloc_ok \in MallocOutcomes :
          Add(key, value, calloc_ok, malloc_ok)
    \/ \E key \in RemovedFor(variant, hm) : Remove(key)
    \/ \E calloc_ok \in BOOLEAN : Clear(calloc_ok)
    \/ \E calloc_ok \in CallocOutcomes, malloc_ok \in MallocOutcomes :
          TestAdd(calloc_ok, malloc_ok)
    \/ TestRemove

Spec == Init /\ [][Next]_vars

(* ----------------------- the entries of a table ------------------------ *)

\* The live entries of the table: the ACTIVE slots, or the nodes of the
\* bucket lists, each named by its place.
LiveEntries(v, self) ==
    IF v = "open"
    THEN {<<n, 1>> : n \in {x \in DOMAIN self.backing : self.backing[x].state = ACTIVE}}
    ELSE UNION {{<<n, m>> : m \in DOMAIN self.backing[n]} : n \in DOMAIN self.backing}

EntryAt(v, self, e) ==
    IF v = "open" THEN self.backing[e[1]] ELSE self.backing[e[1]][e[2]]

\* key is a live key: some live entry has a key equal to it.
Live(v, self, key) ==
    \E e \in LiveEntries(v, self) : equals(self, EntryAt(v, self, e).key, key) = 1

\* The number of live entries that hold the pointer key with the value.
EntryCount(v, self, key, value) ==
    Cardinality({e \in LiveEntries(v, self) :
                    /\ EntryAt(v, self, e).key = key
                    /\ EntryAt(v, self, e).value = value})

AllValues == UNION {ValuesFor(key) : key \in KeysFor(hm)}

\* What del_backing passes to free, or to a function that frees a value:
\* every node of the chained table and the backing array. No value is: the
\* struct has no field for a free function and hashmap_new no parameter
\* (the comment of hashmap_init in the header describes one).
del_backing_frees(v, self) ==
    (IF v = "open" THEN {} ELSE {<<"node", e>> : e \in LiveEntries(v, self)})
    \cup {<<"backing", <<0, 0>>>>}

(* ------------------------------ properties ----------------------------- *)

\* C1 (duplicate rejection): a hashmap_add of a key equal to a live key
\* returns 0, leaves hashmap_size unchanged, and hashmap_get of the key
\* returns what it returned before.
C1_DuplicateRejection ==
    [][(last'.op = "add" /\ Live(variant, hm, last'.key))
        => /\ last'.ret = 0
           /\ hashmap_size(hm') = hashmap_size(hm)
           /\ hashmap_get(variant, hm', last'.key) = hashmap_get(variant, hm, last'.key)]_vars

\* C2 (key uniqueness): no two live entries have equal keys.
C2_KeyUniqueness ==
    \A e1 \in LiveEntries(variant, hm), e2 \in LiveEntries(variant, hm) :
        e1 # e2 => equals(hm, EntryAt(variant, hm, e1).key,
                              EntryAt(variant, hm, e2).key) = 0

\* C3 (round trip): after hashmap_add(k, v) returned 1, hashmap_get(k) is v,
\* and an add or a remove of a key not equal to a live key k leaves
\* hashmap_get(k) as it was.
C3_RoundTrip ==
    [][/\ (last'.op = "add" /\ last'.ret = 1)
            => hashmap_get(variant, hm', last'.key) = last'.value
       /\ last'.op \in {"add", "remove"}
            => \A k \in KeysFor(hm) :
                  (Live(variant, hm, k) /\ equals(hm, k, last'.key) = 0)
                  => hashmap_get(variant, hm', k) = hashmap_get(variant, hm, k)]_vars

\* C4 (remove, then absent): after hashmap_remove of a live key,
\* hashmap_get of the key is NULL, hashmap_contains is 0 and hashmap_size
\* is one less.
C4_RemoveThenAbsent ==
    [][(last'.op = "remove" /\ Live(variant, hm, last'.key))
        => /\ hashmap_get(variant, hm', last'.key) = NULL
           /\ hashmap_contains(variant, hm', last'.key) = 0
           /\ hashmap_size(hm') = hashmap_size(hm) - 1]_vars

\* C5 (size): hashmap_size is the number of ACTIVE slots, or of nodes in
\* the bucket lists.
C5_SizeInvariant ==
    HasArray(hm) => hashmap_size(hm) = Cardinality(LiveEntries(variant, hm))

\* C6 (resize preserves mappings): a hashmap_add that resizes leaves
\* hashmap_get of every key that was live as it was, and every entry that
\* was live is live afterwards.
C6_ResizePreserves ==
    [][(last'.op = "add" /\ last'.resized)
        => /\ \A k \in KeysFor(hm) :
                 Live(variant, hm, k)
                 => /\ hashmap_get(variant, hm', k) = hashmap_get(variant, hm, k)
                    /\ Live(variant, hm', k)
           /\ \A k \in KeysFor(hm), val \in AllValues :
                 EntryCount(variant, hm', k, val) >= EntryCount(variant, hm, k, val)]_vars

\* C7 (a fresh insert never fails for lack of room): in the open-addressing
\* table no add_entry, of hashmap_add or of resize, returns from the test of
\* index_cycle_flag, and a hashmap_add of a key not equal to any live key
\* whose allocation succeeded returns 1.
C7_FreshInsertSucceeds ==
    [][(variant = "open" /\ last'.op = "add")
        => /\ ~last'.full
           /\ (~Live(variant, hm, last'.key) /\ last'.why # "nomem") => last'.ret = 1]_vars

\* A hashmap_add returned 1 without a resize in a table that has no EMPTY
\* slot: the eleventh key of test_add_immediate_remove, stored in the
\* DELETED slot of the first.
C7_Witness ==
    /\ variant = "open"
    /\ last.op = "add" /\ last.ret = 1 /\ ~last.resized
    /\ last.key = HASHMAP_INIT_SIZE
    /\ hm.backing[0].state = ACTIVE /\ hm.backing[0].key = last.key
    /\ \A n \in DOMAIN hm.backing : hm.backing[n].state # EMPTY

\* What a call returns and the error indicator it leaves: the source sets
\* none (ENOKEY is named only in the comments of the header).
GetOutcome(v, self, key) == [ret |-> hashmap_get(v, self, key), enokey |-> FALSE]

RemoveOutcome(v, self, key) == [ret |-> hashmap_remove(v, self, key).ret, enokey |-> FALSE]

\* C8 (contains): hashmap_contains(k) is TRUE exactly when k is a live key,
\* whatever value is stored under it.
C8_ContainsIffLive ==
    HasArray(hm) => \A k \in KeysFor(hm) :
        (hashmap_contains(variant, hm, k) = 1) <=> Live(variant, hm, k)

\* C9 (KeyNotFound is distinguishable): the outcome of hashmap_get and of
\* hashmap_remove on a live key differs from the outcome on a key that is
\* not live.
C9_NotFoundDistinguishable ==
    HasArray(hm) => \A k1 \in KeysFor(hm), k2 \in KeysFor(hm) :
        (Live(variant, hm, k1) /\ ~Live(variant, hm, k2))
        => /\ GetOutcome(variant, hm, k1) # GetOutcome(variant, hm, k2)
           /\ RemoveOutcome(variant, hm, k1) # RemoveOutcome(variant, hm, k2)

\* C10 (remove of an absent key): hashmap_remove of a key that is not live
\* returns NULL and leaves the table as it was: size, nentries and every
\* slot or bucket list.
C10_RemoveAbsentUnchanged ==
    [][(last'.op = "remove" /\ ~Live(variant, hm, last'.key))
        => /\ last'.ret = NULL /\ last'.why = "nokey"
           /\ hm' = hm]_vars

\* A hashmap_remove of a key that was removed before, its DELETED slot still
\* in the open-addressing table next to live entries.
C10_Witness ==
    /\ variant = "open"
    /\ last.op = "remove" /\ last.why = "nokey"
    /\ hm.nentries > 0
    /\ \E n \in DOMAIN hm.backing :
          hm.backing[n].state = DELETED /\ hm.backing[n].key = last.key

\* C11 (a rejected duplicate does not mutate): a hashmap_add that returns 0
\* because the key is already in the table leaves size, nentries and the
\* backing array or bucket lists as they were, also when
\* nentries * 1.5 >= size held on entry.
C11_DuplicateAddUnchanged ==
    [][(last'.op = "add" /\ last'.why = "dup") => hm' = hm]_vars

\* C12 (allocation failure in hashmap_add): a hashmap_add that fails for an
\* allocation, the calloc of resize or the malloc of the node, returns 0 and
\* leaves nentries, size and hashmap_get of every key as they were.
C12_AllocFailureUnchanged ==
    [][(last'.op = "add" /\ last'.why = "nomem")
        => /\ last'.ret = 0
           /\ hashmap_size(hm') = hashmap_size(hm)
           /\ hm'.size = hm.size
           /\ \A k \in KeysFor(hm) :
                 hashmap_get(variant, hm', k) = hashmap_get(variant, hm, k)]_vars

\* C13 (creation failure is reported): a hashmap_new that did not return
\* NULL returned an empty table: size 10, nentries 0, a backing array of 10
\* empty slots or buckets, and hashcode and equals set.
C13_NewNonNullIsEmptyTable ==
    (last.op = "new" /\ last.ret # NULL)
    => /\ hm.size = HASHMAP_INIT_SIZE
       /\ hm.nentries = 0
       /\ hm.backing = hashmap_init(variant, NoStruct, "NULL", "NULL", TRUE).self.backing
       /\ hm.hashcode \in {"addr_hash", "collision_hash", "hashmap_str_hash"}
       /\ hm.equals \in {"ref_eq", "hashmap_str_eq"}

\* C14 (clear): a hashmap_clear whose allocation succeeds leaves
\* hashmap_size 0, size 10, hashmap_get NULL for every key and the hash and
\* equals functions of before; the table is the one hashmap_new makes with
\* those functions, so every later call behaves as on a new table.
C14_ClearResets ==
    [][(last'.op = "clear" /\ last'.why = "ok")
        => /\ hashmap_size(hm') = 0
           /\ hm'.size = HASHMAP_INIT_SIZE
           /\ \A k \in KeysFor(hm) :
                 /\ hashmap_get(variant, hm', k) = NULL
                 /\ ~Live(variant, hm', k)
           /\ hm'.hashcode = hm.hashcode /\ hm'.equals = hm.equals
           /\ hm' = hashmap_new(variant, hm.hashcode, hm.equals, TRUE, TRUE, NoStruct).self]_vars

\* A hashmap_clear has returned on a table made with collision_hash.
C14_Witness ==
    /\ last.op = "clear" /\ last.why = "ok"
    /\ hm.hashcode = "collision_hash" /\ hm.equals = "ref_eq"
    /\ HasArray(hm) /\ hashmap_size(hm) = 0

\* C15 (add, then remove at once): in test_add_immediate_remove, on a table
\* that starts empty with size 10, every hashmap_add of the next key whose
\* allocation succeeds returns 1 and makes hashmap_size 1, the
\* hashmap_remove that follows returns the value added and makes
\* hashmap_size 0, and size stays 10.
C15_AddRemoveChurn ==
    (test = "test_add_immediate_remove" /\ HasArray(hm))
    => /\ hm.size = HASHMAP_INIT_SIZE
       /\ (last.op = "add" /\ last.why # "nomem")
            => /\ last.ret = 1 /\ last.key = as_key(test_i)
               /\ hashmap_size(hm) = 1
       /\ last.op = "remove"
            => /\ last.ret = as_key(test_i - 1) /\ last.why = "ok"
               /\ hashmap_size(hm) = 0

\* The remove of the twelfth iteration has returned its value: every slot of
\* the open-addressing table is DELETED by then.
C15_Witness ==
    /\ test = "test_add_immediate_remove" /\ variant = "open"
    /\ last.op = "remove" /\ last.key = HASHMAP_INIT_SIZE /\ last.ret = last.key
    /\ test_i = HASHMAP_INIT_SIZE + 1
    /\ \A n \in DOMAIN hm.backing : hm.backing[n].state = DELETED

\* C16 (value destructor): hashmap_clear invokes the function that frees a
\* value on the value of every entry that is live when it is called.
C16_DestructorOnClear ==
    [][last'.op = "clear"
        => \A e \in LiveEntries(variant, hm) :
              <<"value", e>> \in del_backing_frees(variant, hm)]_vars

\* C17 (resize policy): a hashmap_add changes size only if
\* nentries * 1.5 >= size held on entry, and then to twice the size; when
\* that held and size did not change, the call failed for an allocation.
\* hashmap_remove never changes size. So size never decreases but by
\* hashmap_clear and is always 10 * 2^n.
C17_ResizePolicy ==
    [][HasArray(hm')
        => /\ last'.op = "add"
                => /\ hm'.size # hm.size
                        => /\ hashmap_size(hm) * 3 >= hm.size * 2
                           /\ hm'.size = 2 * hm.size
                           /\ last'.resized
                   /\ (hashmap_size(hm) * 3 >= hm.size * 2 /\ hm'.size = hm.size)
                        => last'.ret = 0 /\ last'.why = "nomem"
           /\ last'.op = "remove" => hm'.size = hm.size
           /\ last'.op # "clear" => hm'.size >= hm.size
           /\ \E n \in 0..5 : hm'.size = HASHMAP_INIT_SIZE * (2 ^ n)]_vars

\* A hashmap_add that found nentries * 1.5 >= size has doubled the size
\* and stored its pair.
C17_Witness ==
    /\ last.op = "add" /\ last.resized /\ last.ret = 1
    /\ hm.size = 2 * HASHMAP_INIT_SIZE
    /\ hashmap_size(hm) * 3 >= HASHMAP_INIT_SIZE * 2

\* C18 (insertion probe of the open-addressing table): a hashmap_add that
\* does not resize stores its pair only in a slot that was EMPTY, and a
\* DELETED slot does not end its search: when a key equal to the new one is
\* live, the add returns 0.
C18_InsertOnlyInEmpty ==
    [][(variant = "open" /\ last'.op = "add" /\ ~last'.resized)
        => /\ \A n \in DOMAIN hm.backing :
                 hm'.backing[n] # hm.backing[n] => hm.backing[n].state = EMPTY
           /\ Live(variant, hm, last'.key) => last'.ret = 0]_vars

\* The places on the probe path of key, counted from its start, at which a
\* lookup has to stop: an EMPTY slot, or an ACTIVE slot with an equal key.
StopPlaces(self, key, start) ==
    {j \in 0..(self.size - 1) :
        \/ self.backing[(start + j) % self.size].state = EMPTY
        \/ /\ self.backing[(start + j) % self.size].state = ACTIVE
           /\ equals(self, self.backing[(start + j) % self.size].key, key) = 1}

MinOf(S) == CHOOSE m \in S : \A x \in S : m <= x

\* What find_entry has to return at the place j of the probe path.
FoundAt(self, start, j) ==
    IF self.backing[(start + j) % self.size].state = EMPTY THEN -1
    ELSE (start + j) % self.size

\* C19 (lookup terminates): in the open-addressing table find_entry tests at
\* most size slots. It stops at the first slot of the probe path that is
\* EMPTY (not found) or ACTIVE with an equal key (found), never at a DELETED
\* one, and when there is no such slot it returns NULL after size slots.
C19_LookupTerminates ==
    (variant = "open" /\ HasArray(hm))
    => \A key \in KeysFor(hm) :
          \E start \in {compress(hm, hashcode(hm, key))} :
          \E n \in {find_entry_examined(hm, key, start, start)} :
          \E stops \in {StopPlaces(hm, key, start)} :
             /\ n <= hm.size
             /\ IF stops = {}
                THEN n = hm.size /\ find_entry(hm, key) = -1
                ELSE /\ n = MinOf(stops) + 1
                     /\ find_entry(hm, key) = FoundAt(hm, start, MinOf(stops))

\* A table without an EMPTY slot, in which find_entry returns NULL for some
\* key after it has tested every slot.
C19_Witness ==
    /\ variant = "open" /\ HasArray(hm)
    /\ \A n \in DOMAIN hm.backing : hm.backing[n].state # EMPTY
    /\ \E key \in KeysFor(hm) :
          /\ find_entry(hm, key) = -1
          /\ find_entry_examined(hm, key, compress(hm, hashcode(hm, key)),
                                 compress(hm, hashcode(hm, key))) = hm.size

\* C20 (removal does not disturb other keys): a hashmap_remove of k leaves
\* hashmap_get of every key not equal to k as it was. In the open-addressing
\* table it makes no slot EMPTY: when it found k, one ACTIVE slot with a key
\* equal to k has become DELETED and no other slot has changed.
C20_RemoveFrame ==
    [][last'.op = "remove"
        => /\ \A k \in KeysFor(hm) :
                 equals(hm, k, last'.key) = 0
                 => hashmap_get(variant, hm', k) = hashmap_get(variant, hm, k)
           /\ variant = "open"
                => /\ \A n \in DOMAIN hm.backing :
                         hm'.backing[n].state = EMPTY <=> hm.backing[n].state = EMPTY
                   /\ last'.why = "ok"
                        => \E n \in DOMAIN hm.backing :
                              /\ hm.backing[n].state = ACTIVE
                              /\ equals(hm, hm.backing[n].key, last'.key) = 1
                              /\ hm'.backing = [hm.backing EXCEPT ![n].state = DELETED]]_vars

\* A hashmap_remove has made DELETED the slot that a live key of another
\* slot hashes to: that key was displaced by probing past the removed one.
C20_Witness ==
    /\ variant = "open" /\ HasArray(hm)
    /\ last.op = "remove" /\ last.why = "ok"
    /\ \E n \in DOMAIN hm.backing, m \in DOMAIN hm.backing :
          /\ hm.backing[n].state = DELETED /\ hm.backing[n].key = last.key
          /\ m # n /\ hm.backing[m].state = ACTIVE
          /\ equals(hm, hm.backing[m].key, last.key) = 0
          /\ compress(hm, hashcode(hm, hm.backing[m].key)) = n
          /\ hm.backing[m].value # NULL
          /\ hashmap_get(variant, hm, hm.backing[m].key) = hm.backing[m].value

\* INT_MAX and INT_MIN, in steps that stay within them.
IntMax == (2 ^ (INT_BITS - 2)) - 1 + (2 ^ (INT_BITS - 2))

IntMin == (-IntMax) - 1

\* Hash values: the ends of the range of int and the values around 0.
HashValues == {IntMin, IntMin + 1, IntMax - 1, IntMax} \cup (-21)..21

\* C21 (index range, negative hashes): at every size the table has, compress
\* of every hash value and update_index of every index are in 0..size-1. A
\* key with a negative hash makes the round trip: after hashmap_add of it
\* returned 1 hashmap_get returns its value, hashmap_remove of it when live
\* returns what hashmap_get returned, and a hashmap_add that resizes leaves
\* hashmap_get of it as it was.
C21_IndexRange ==
    /\ [](HasArray(hm)
           => /\ \A h \in HashValues : compress(hm, h) \in 0..(hm.size - 1)
              /\ \A i \in 0..(hm.size - 1) : update_index(hm, i) \in 0..(hm.size - 1))
    /\ [][HasArray(hm')
        => \A k \in {x \in KeysFor(hm) : hashcode(hm, x) < 0} :
                 /\ (last'.op = "add" /\ last'.key = k /\ last'.ret = 1)
                      => hashmap_get(variant, hm', k) = last'.value
                 /\ (last'.op = "remove" /\ last'.key = k /\ Live(variant, hm, k))
                      => last'.ret = hashmap_get(variant, hm, k)
                 /\ (last'.op = "add" /\ last'.resized /\ last'.key # k
                     /\ Live(variant, hm, k))
                      => hashmap_get(variant, hm', k) = hashmap_get(variant, hm, k)]_vars

\* The key -3 was added at size 10, in slot 3, and has been removed at size
\* 20, where its index is 13.
C21_Witness ==
    /\ HasArray(hm) /\ hm.size = 2 * HASHMAP_INIT_SIZE
    /\ last.op = "remove" /\ last.why = "ok"
    /\ hashcode(hm, last.key) < 0 /\ last.ret = last.key
    /\ compress(hm, hashcode(hm, last.key)) = 13
    /\ ~Live(variant, hm, last.key)

\* The number of steps of update_index from the index start to the index i.
Dist(self, start, i) == (i - start) % self.size

\* C22 (probe path, open addressing): for every ACTIVE slot i, no slot on
\* the probe path from the index of its key up to i is EMPTY, and find_entry
\* of its key does not return NULL: it returns a slot of that path, i or an
\* earlier one.
C22_ProbePath ==
    (variant = "open" /\ HasArray(hm))
    => \A i \in DOMAIN hm.backing :
          hm.backing[i].state = ACTIVE
          => \E start \in {compress(hm, hashcode(hm, hm.backing[i].key))} :
                /\ \A j \in 0..(hm.size - 1) :
                      j < Dist(hm, start, i)
                      => hm.backing[(start + j) % hm.size].state # EMPTY
                /\ \E r \in {find_entry(hm, hm.backing[i].key)} :
                      /\ r # -1
                      /\ Dist(hm, start, r) <= Dist(hm, start, i)

\* An ACTIVE slot whose probe path wraps around the end of the array and
\* passes a DELETED slot; find_entry of its key returns it.
C22_Witness ==
    /\ variant = "open" /\ HasArray(hm)
    /\ \E i \in DOMAIN hm.backing :
          /\ hm.backing[i].state = ACTIVE
          /\ compress(hm, hashcode(hm, hm.backing[i].key)) > i
          /\ \E j \in DOMAIN hm.backing :
                /\ hm.backing[j].state = DELETED
                /\ Dist(hm, compress(hm, hashcode(hm, hm.backing[i].key)), j)
                     < Dist(hm, compress(hm, hashcode(hm, hm.backing[i].key)), i)
          /\ find_entry(hm, hm.backing[i].key) = i

\* C23 (bucket placement, chained): every node is in the bucket list whose
\* index is compress of the hash of its key at the present size, and no key
\* is in two nodes. A hashmap_add that resizes keeps every node, under its
\* key and value, once: the nodes afterwards are those of before and the
\* one the call added.
C23_BucketPlacement ==
    /\ []((variant = "chained" /\ HasArray(hm))
            => /\ \A e \in LiveEntries(variant, hm) :
                     e[1] = compress(hm, hashcode(hm, EntryAt(variant, hm, e).key))
               /\ \A e1 \in LiveEntries(variant, hm), e2 \in LiveEntries(variant, hm) :
                     e1 # e2 => EntryAt(variant, hm, e1).key # EntryAt(variant, hm, e2).key)
    /\ [][(variant = "chained" /\ last'.op = "add" /\ last'.resized)
            => /\ Cardinality(LiveEntries(variant, hm'))
                    = Cardinality(LiveEntries(variant, hm)) + last'.ret
               /\ \A k \in KeysFor(hm), val \in AllValues :
                     EntryCount(variant, hm', k, val)
                       = EntryCount(variant, hm, k, val)
                         + (IF last'.ret = 1 /\ k = last'.key /\ val = last'.value
                            THEN 1 ELSE 0)]_vars

\* A resize of the chained table has parted two nodes that shared a bucket
\* list at size 10.
C23_Witness ==
    /\ variant = "chained" /\ HasArray(hm)
    /\ last.op = "add" /\ last.resized /\ hm.size = 2 * HASHMAP_INIT_SIZE
    /\ \E e1 \in LiveEntries(variant, hm), e2 \in LiveEntries(variant, hm) :
          /\ e1[1] # e2[1]
          /\ EntryAt(variant, hm, e1).key # last.key
          /\ EntryAt(variant, hm, e2).key # last.key
          /\ compress([hm EXCEPT !.size = HASHMAP_INIT_SIZE],
                      hashcode(hm, EntryAt(variant, hm, e1).key))
               = compress([hm EXCEPT !.size = HASHMAP_INIT_SIZE],
                          hashcode(hm, EntryAt(variant, hm, e2).key))

\* C24 (load bound): in either variant, when hashmap_size is at least 1,
\* (hashmap_size - 1) * 1.5 < size; and the number of ACTIVE slots of the
\* open-addressing table is less than size.
C24_LoadBound ==
    HasArray(hm)
    => /\ hashmap_size(hm) >= 1 => (hashmap_size(hm) - 1) * 3 < hm.size * 2
       /\ variant = "open" => Cardinality(LiveEntries(variant, hm)) < hm.size

\* The open-addressing table holds as many entries as size 10 allows, 7: the
\* next hashmap_add resizes.
C24_Witness ==
    /\ variant = "open" /\ HasArray(hm)
    /\ hm.size = HASHMAP_INIT_SIZE
    /\ last.op = "add" /\ last.ret = 1
    /\ hashmap_size(hm) = 7 /\ Cardinality(LiveEntries(variant, hm)) = 7
    /\ NeedsResize(hm)

====
